---- MODULE Spec2Model ----
(***************************************************************************)
(* A model of src/src/job_pipeline.py: the text helpers, the salary        *)
(* parser, the skill extractor, the region classifier, the cleaning pass   *)
(* (clean_posts), the fetcher (polite_get) and the collection stage        *)
(* (collect_posts).                                                        *)
(*                                                                         *)
(* Text is a sequence of one-character strings.  A Python value that may   *)
(* or may not be text is a record [kind, s, n]: kind "str" with the text   *)
(* s, "none" (None), "int" with the number n, or "nan" (float nan, the     *)
(* missing-value marker of pandas).                                        *)
(*                                                                         *)
(* Money is an exact decimal in units of 1/Scale dollar.  The code uses    *)
(* IEEE doubles; on the inputs of the model (at most MaxDigits integer and *)
(* MaxFrac fraction digits per number) the doubles agree with the exact    *)
(* value in every comparison the code makes.  A value above Cap is kept as *)
(* Cap: Cap exceeds the plausibility gate's upper limit, so such a value   *)
(* is rejected either way.                                                 *)
(***************************************************************************)
EXTENDS Integers, Sequences, FiniteSets, TLC

VARIABLES pc, arg, ret, loc

vars == <<pc, arg, ret, loc>>

(* ------------------------------ bounds -------------------------------- *)

\* salary inputs: the number of fragments before the unit suffix
MaxParts == 3
\* integer digits of one number of a salary input
MaxDigits == 6
\* fraction digits of one number of a salary input
MaxFrac == 1
\* skill inputs: the number of fragments of the text
MaxTextParts == 3
\* skill inputs: the number of vocabulary entries
MaxVocab == 2
\* region inputs: the number of fragments of the location
MaxLocParts == 3
\* clean_posts inputs: the number of rows of the DataFrame
MaxRows == 3
\* polite_get inputs: the largest retry count
MaxRetries == 3
\* collect_posts inputs: the largest limit of a source
MaxLimit == 2

(* ------------------------------ values -------------------------------- *)

Str(s) == [kind |-> "str", s |-> s, n |-> 0]
PyNone == [kind |-> "none", s |-> <<>>, n |-> 0]
PyInt(n) == [kind |-> "int", s |-> <<>>, n |-> n]
PyNaN == [kind |-> "nan", s |-> <<>>, n |-> 0]

\* Python truthiness: None, "" and 0 are falsy; nan and other numbers truthy
Truthy(v) ==
  CASE v.kind = "str" -> v.s # <<>>
    [] v.kind = "none" -> FALSE
    [] v.kind = "int" -> v.n # 0
    [] OTHER -> TRUE

\* `v or ""`
OrEmpty(v) == IF Truthy(v) THEN v ELSE Str(<<>>)

(* ------------------------------- text --------------------------------- *)

RECURSIVE Concat(_)
Concat(ss) == IF ss = <<>> THEN <<>> ELSE Head(ss) \o Concat(Tail(ss))

\* regex \s
IsSpace(c) == c \in {" ", "\t", "\n"}

\* regex \d
IsDigit(c) == c \in {"0", "1", "2", "3", "4", "5", "6", "7", "8", "9"}

\* the lower-case letter of each upper-case letter
UpperToLower ==
  [A |-> "a", B |-> "b", C |-> "c", D |-> "d", E |-> "e", F |-> "f", G |-> "g",
   H |-> "h", I |-> "i", J |-> "j", K |-> "k", L |-> "l", M |-> "m", N |-> "n",
   O |-> "o", P |-> "p", Q |-> "q", R |-> "r", S |-> "s", T |-> "t", U |-> "u",
   V |-> "v", W |-> "w", X |-> "x", Y |-> "y", Z |-> "z"]

Letters ==
  {"a", "b", "c", "d", "e", "f", "g", "h", "i", "j", "k", "l", "m",
    "n", "o", "p", "q", "r", "s", "t", "u", "v", "w", "x", "y", "z",
    "A", "B", "C", "D", "E", "F", "G", "H", "I", "J", "K", "L", "M",
    "N", "O", "P", "Q", "R", "S", "T", "U", "V", "W", "X", "Y", "Z"}

\* regex \w (the word characters of the model's alphabet)
IsWord(c) == IsDigit(c) \/ c = "_" \/ c \in Letters

LowerChar(c) == IF c \in DOMAIN UpperToLower THEN UpperToLower[c] ELSE c

\* str.lower()
lower(s) == [i \in 1..Len(s) |-> LowerChar(s[i])]

\* str.replace(c, "") for a one-character c
RECURSIVE remove_char(_, _)
remove_char(s, c) ==
  IF s = <<>> THEN <<>>
  ELSE IF Head(s) = c THEN remove_char(Tail(s), c)
  ELSE <<Head(s)>> \o remove_char(Tail(s), c)

\* `sub in s`
Contains(s, sub) ==
  \E i \in 0..(Len(s) - Len(sub)) :
    \A j \in 1..Len(sub) : s[i + j] = sub[j]

\* re.sub(r"\s+", " ", s): every run of whitespace becomes one space
RECURSIVE collapse_ws(_)
collapse_ws(s) ==
  IF s = <<>> THEN <<>>
  ELSE IF IsSpace(Head(s))
       THEN IF Len(s) > 1 /\ IsSpace(s[2])
            THEN collapse_ws(Tail(s))
            ELSE <<" ">> \o collapse_ws(Tail(s))
       ELSE <<Head(s)>> \o collapse_ws(Tail(s))

\* str.strip()
RECURSIVE lstrip(_)
lstrip(s) == IF s # <<>> /\ IsSpace(Head(s)) THEN lstrip(Tail(s)) ELSE s

RECURSIVE rstrip(_)
rstrip(s) ==
  IF s # <<>> /\ IsSpace(s[Len(s)]) THEN rstrip(SubSeq(s, 1, Len(s) - 1)) ELSE s

strip(s) == rstrip(lstrip(s))

\* clean_text(s): re.sub(r"\s+", " ", (s or "")).strip(); re.sub raises
\* TypeError on a value that is not text
clean_text(v) ==
  LET x == OrEmpty(v) IN
    IF x.kind = "str"
    THEN [raised |-> FALSE, s |-> strip(collapse_ws(x.s))]
    ELSE [raised |-> TRUE, s |-> <<>>]

(* --------------------------- salary parser ---------------------------- *)

RECURSIVE Pow10(_)
Pow10(n) == IF n = 0 THEN 1 ELSE 10 * Pow10(n - 1)

\* one dollar, in the model's money unit
Scale == Pow10(MaxFrac)

\* the largest value kept exactly (1,000,000 dollars, above the gate)
Cap == 1000000 * Scale

Sat(v) == IF v > Cap THEN Cap ELSE v

\* v * f with the product kept at Cap when it exceeds Cap
SatMul(v, f) == IF v > Cap \div f THEN Cap ELSE v * f

\* None
Absent == 0 - 1

DigitVal(c) ==
  CASE c = "0" -> 0 [] c = "1" -> 1 [] c = "2" -> 2 [] c = "3" -> 3
    [] c = "4" -> 4 [] c = "5" -> 5 [] c = "6" -> 6 [] c = "7" -> 7
    [] c = "8" -> 8 [] c = "9" -> 9

\* the first index >= i of s that holds no digit (Len(s) + 1 if none)
RECURSIVE DigitsEnd(_, _)
DigitsEnd(s, i) ==
  IF i <= Len(s) /\ IsDigit(s[i]) THEN DigitsEnd(s, i + 1) ELSE i

\* the first index >= i of s that holds no whitespace
RECURSIVE SpaceEnd(_, _)
SpaceEnd(s, i) ==
  IF i <= Len(s) /\ IsSpace(s[i]) THEN SpaceEnd(s, i + 1) ELSE i

\* int(s[i..j-1]) for a run of digits
RECURSIVE IntVal(_, _, _)
IntVal(s, i, j) ==
  IF j <= i THEN 0 ELSE 10 * IntVal(s, i, j - 1) + DigitVal(s[j - 1])

\* float(m.group(1)): the digits s[i..dot-1], and the fraction digits
\* s[dot+1..e-1] when e > dot
DecVal(s, i, dot, e) ==
  Sat(IntVal(s, i, dot) * Scale
      + (IF e > dot THEN IntVal(s, dot + 1, e) * Pow10(MaxFrac - (e - dot - 1))
         ELSE 0))

\* number_match with the "k" accepted only directly after the number
number_match_nospace(s, i) ==
  LET dot == DigitsEnd(s, i)
      hasFrac == dot + 1 <= Len(s) /\ s[dot] = "." /\ IsDigit(s[dot + 1])
      numend == IF hasFrac THEN DigitsEnd(s, dot + 1) ELSE dot
      k == numend <= Len(s) /\ s[numend] = "k"
  IN [start |-> i, dot |-> dot, numend |-> numend,
      end |-> IF k THEN numend + 1 ELSE SpaceEnd(s, numend), g2 |-> k]

\* the match of (\d+(?:\.\d+)?)\s*(k)? that starts at the digit s[i]:
\* group 1 is s[start..numend-1], group 2 is "k" or unmatched
number_match(s, i) ==
  LET dot == DigitsEnd(s, i)
      hasFrac == dot + 1 <= Len(s) /\ s[dot] = "." /\ IsDigit(s[dot + 1])
      numend == IF hasFrac THEN DigitsEnd(s, dot + 1) ELSE dot
      w == SpaceEnd(s, numend)
      k == w <= Len(s) /\ s[w] = "k"
  IN [start |-> i, dot |-> dot, numend |-> numend,
      end |-> IF k THEN w + 1 ELSE w, g2 |-> k]

\* re.finditer(r"(\d+(?:\.\d+)?)\s*(k)?", s) from index i on: the matches,
\* left to right, each search starting where the previous match ended
RECURSIVE finditer_from(_, _)
finditer_from(s, i) ==
  IF i > Len(s) THEN <<>>
  ELSE IF IsDigit(s[i])
       THEN LET m == number_match(s, i) IN <<m>> \o finditer_from(s, m.end)
       ELSE finditer_from(s, i + 1)

finditer(s) == finditer_from(s, 1)

\* val = float(m.group(1)); if m.group(2) == "k": val *= 1000.0
candidate(s, m) ==
  LET val == DecVal(s, m.start, m.dot, m.numend) IN
    IF m.g2 THEN SatMul(val, 1000) ELSE val

\* detect_unit with the week tokens tried before the month tokens
detect_unit_week_first(txt) ==
  IF Contains(txt, <<"/", "h", "r">>)
     \/ Contains(txt, <<"p", "e", "r", " ", "h", "o", "u", "r">>)
     \/ Contains(txt, <<"h", "o", "u", "r">>)
  THEN "hour"
  ELSE IF Contains(txt, <<"/", "w", "e", "e", "k">>)
          \/ Contains(txt, <<"p", "e", "r", " ", "w", "e", "e", "k">>)
  THEN "week"
  ELSE IF Contains(txt, <<"/", "m", "o", "n", "t", "h">>)
          \/ Contains(txt, <<"p", "e", "r", " ", "m", "o", "n", "t", "h">>)
  THEN "month"
  ELSE "year"

\* the unit detected from the lowercased, comma-free text
detect_unit(txt) ==
  IF Contains(txt, <<"/", "h", "r">>)
     \/ Contains(txt, <<"p", "e", "r", " ", "h", "o", "u", "r">>)
     \/ Contains(txt, <<"h", "o", "u", "r">>)
  THEN "hour"
  ELSE IF Contains(txt, <<"/", "m", "o", "n", "t", "h">>)
          \/ Contains(txt, <<"p", "e", "r", " ", "m", "o", "n", "t", "h">>)
  THEN "month"
  ELSE IF Contains(txt, <<"/", "w", "e", "e", "k">>)
          \/ Contains(txt, <<"p", "e", "r", " ", "w", "e", "e", "k">>)
  THEN "week"
  ELSE "year"

\* the yearly factor of a unit
unit_factor(unit) ==
  CASE unit = "hour" -> 2080
    [] unit = "week" -> 52
    [] unit = "month" -> 12
    [] OTHER -> 1

\* first_two taking the smallest and the largest of all the candidates
RECURSIVE SeqMin(_)
SeqMin(q) ==
  IF Len(q) = 1 THEN q[1]
  ELSE LET r == SeqMin(Tail(q)) IN IF q[1] <= r THEN q[1] ELSE r

RECURSIVE SeqMax(_)
SeqMax(q) ==
  IF Len(q) = 1 THEN q[1]
  ELSE LET r == SeqMax(Tail(q)) IN IF q[1] >= r THEN q[1] ELSE r

first_two_all(nums) == [lo |-> SeqMin(nums), hi |-> SeqMax(nums)]

\* lo, hi of the first two candidates (of the only one)
first_two(nums) ==
  IF Len(nums) >= 2
  THEN [lo |-> IF nums[1] <= nums[2] THEN nums[1] ELSE nums[2],
        hi |-> IF nums[1] >= nums[2] THEN nums[1] ELSE nums[2]]
  ELSE [lo |-> nums[1], hi |-> nums[1]]

\* gate_rejects with the two limits themselves rejected
gate_rejects_strict(lo, hi) == lo <= 15000 * Scale \/ hi >= 700000 * Scale

\* if lo < 15000 or hi > 700000: the parse is discarded
gate_rejects(lo, hi) == lo < 15000 * Scale \/ hi > 700000 * Scale

\* parse_salary_to_yearly_usd(s): the returned (lo, hi, unit), with the
\* locals txt, matches and nums kept for inspection
parse_salary_to_yearly_usd(v) ==
  LET c == clean_text(OrEmpty(v))
      s0 == c.s
      txt == remove_char(lower(s0), ",")
      unit == detect_unit(txt)
      ms == finditer(txt)
      nums == [i \in 1..Len(ms) |-> candidate(txt, ms[i])]
      none(u) == [raised |-> FALSE, lo |-> Absent, hi |-> Absent, unit |-> u]
  IN
    IF c.raised
    THEN [raised |-> TRUE, lo |-> Absent, hi |-> Absent, unit |-> "",
          txt |-> <<>>, matches |-> <<>>, nums |-> <<>>]
    ELSE IF s0 = <<>>
    THEN none("unknown") @@ [txt |-> <<>>, matches |-> <<>>, nums |-> <<>>]
    ELSE IF nums = <<>>
    THEN none(unit) @@ [txt |-> txt, matches |-> ms, nums |-> nums]
    ELSE LET p == first_two(nums)
             lo == SatMul(p.lo, unit_factor(unit))
             hi == SatMul(p.hi, unit_factor(unit))
         IN IF gate_rejects(lo, hi)
            THEN none(unit) @@ [txt |-> txt, matches |-> ms, nums |-> nums]
            ELSE [raised |-> FALSE, lo |-> lo, hi |-> hi, unit |-> unit,
                  txt |-> txt, matches |-> ms, nums |-> nums]

(* ---- the salary parser applied to bounded inputs ---- *)

SalaryParts ==
  { <<"1", "5">>, <<"7", "0", "0">>, <<"0", "0", "0">>, <<"k">>, <<" ">>,
    <<".", "5">>, <<",">>, <<"2", "0", "k", "-">> }

UnitSuffixes ==
  { <<>>,
    <<"/", "h", "r">>,
    <<" ", "p", "e", "r", " ", "h", "o", "u", "r">>,
    <<"/", "m", "o", "n", "t", "h">>,
    <<" ", "P", "e", "r", " ", "M", "o", "n", "t", "h">>,
    <<"/", "w", "e", "e", "k">>,
    <<" ", "p", "e", "r", " ", "w", "e", "e", "k">>,
    <<"/", "w", "e", "e", "k", "/", "m", "o", "n", "t", "h">>,
    <<"/", "m", "o", "n", "t", "h", " ", "H", "O", "U", "R">>,
    <<" ", "K">> }

PartSeqs(S, n) == UNION { [1..k -> S] : k \in 0..n }

\* every number of the text has at most MaxDigits integer digits and at
\* most MaxFrac fraction digits
Representable(s) ==
  LET ms == finditer(remove_char(lower(s), ","))
  IN \A i \in 1..Len(ms) :
       /\ ms[i].dot - ms[i].start <= MaxDigits
       /\ ms[i].numend - ms[i].dot - 1 <= MaxFrac

NoRet == [raised |-> FALSE]

InitSalary ==
  /\ pc = "call"
  /\ \/ arg = PyNone
     \/ \E ps \in PartSeqs(SalaryParts, MaxParts), u \in UnitSuffixes :
          /\ Representable(Concat(ps) \o u)
          /\ arg = Str(Concat(ps) \o u)
  /\ ret = NoRet
  /\ loc = NoRet

ParseSalary ==
  /\ pc = "call"
  /\ LET r == parse_salary_to_yearly_usd(arg) IN
       /\ ret' = [raised |-> r.raised, lo |-> r.lo, hi |-> r.hi, unit |-> r.unit]
       /\ loc' = [txt |-> r.txt, matches |-> r.matches, nums |-> r.nums]
  /\ pc' = "done"
  /\ arg' = arg

NextSalary == ParseSalary

SpecSalary == InitSalary /\ [][NextSalary]_vars

(* ---- claims about the salary parser ---- *)

Done == pc = "done"

\* the text the unit is detected from: normalized, lowercased, commas removed
SalaryText(v) ==
  IF v.kind = "str" THEN remove_char(lower(strip(collapse_ws(v.s))), ",") ELSE <<>>

\* the unit factor the claims state
ClaimFactor(u) ==
  IF u = "hour" THEN 2080 ELSE IF u = "week" THEN 52 ELSE IF u = "month" THEN 12 ELSE 1

\* v * f, any product above 1,000,000 dollars counted as 1,000,000 dollars
ClaimTimes(v, f) ==
  IF v > (1000000 * Scale) \div f THEN 1000000 * Scale ELSE v * f

ClaimMin(a, b) == IF a <= b THEN a ELSE b
ClaimMax(a, b) == IF a >= b THEN a ELSE b

\* the yearly minimum and maximum of the first two candidates
YearlyMin(nums, u) ==
  ClaimTimes(ClaimMin(nums[1], nums[IF Len(nums) >= 2 THEN 2 ELSE 1]), ClaimFactor(u))
YearlyMax(nums, u) ==
  ClaimTimes(ClaimMax(nums[1], nums[IF Len(nums) >= 2 THEN 2 ELSE 1]), ClaimFactor(u))

HasToken(txt, toks) == \E k \in toks : Contains(txt, k)

HourTokens == { <<"/", "h", "r">>, <<"p", "e", "r", " ", "h", "o", "u", "r">>,
                <<"h", "o", "u", "r">> }
MonthTokens == { <<"/", "m", "o", "n", "t", "h">>,
                 <<"p", "e", "r", " ", "m", "o", "n", "t", "h">> }
WeekTokens == { <<"/", "w", "e", "e", "k">>,
                <<"p", "e", "r", " ", "w", "e", "e", "k">> }

\* null, or nothing but whitespace
EmptyInput(v) == v.kind = "none" \/ \A i \in 1..Len(v.s) : IsSpace(v.s[i])

ExpectedUnit(v) ==
  IF EmptyInput(v) THEN "unknown"
  ELSE IF HasToken(SalaryText(v), HourTokens) THEN "hour"
  ELSE IF HasToken(SalaryText(v), MonthTokens) THEN "month"
  ELSE IF HasToken(SalaryText(v), WeekTokens) THEN "week"
  ELSE "year"

\* C2: parse_salary_to_yearly_usd returns both numbers absent, or both
\* present with 15000 <= min <= max <= 700000; when a number was found, the
\* numbers are discarded exactly when the yearly minimum is below 15000 or
\* the yearly maximum above 700000 (both limits are accepted), and the unit
\* returned with discarded numbers is the unit detected from the string.
C2_PlausibilityGate ==
  Done =>
    /\ ~ret.raised
    /\ \/ ret.lo = Absent /\ ret.hi = Absent
       \/ /\ 15000 * Scale <= ret.lo
          /\ ret.lo <= ret.hi
          /\ ret.hi <= 700000 * Scale
    /\ loc.nums # <<>> =>
         /\ (ret.lo = Absent) <=>
              \/ YearlyMin(loc.nums, ret.unit) < 15000 * Scale
              \/ YearlyMax(loc.nums, ret.unit) > 700000 * Scale
         /\ ret.lo = Absent => ret.unit = ExpectedUnit(arg)

\* C2 witness: numbers found and discarded at the gate, the unit kept; the
\* yearly minimum is at least 15000, so it is the upper limit that rejects
C2_Witness ==
  /\ Done
  /\ loc.nums # <<>>
  /\ ret.lo = Absent
  /\ ret.unit = "month"
  /\ YearlyMin(loc.nums, "month") >= 15000 * Scale

\* C3: when the result passes the gate, min and max are the smaller and the
\* larger of the first two candidates in order of appearance (both the only
\* candidate when there is one), times 2080 for hour, 52 for week, 12 for
\* month and 1 for year; later candidates are ignored.
C3_FirstTwoCandidates ==
  (Done /\ ret.lo # Absent) =>
    /\ loc.nums # <<>>
    /\ ret.lo = YearlyMin(loc.nums, ret.unit)
    /\ ret.hi = YearlyMax(loc.nums, ret.unit)

\* C3 witness: three candidates, the third smaller than the first two and
\* itself inside the gate, and a result that passes the gate
C3_Witness ==
  /\ Done
  /\ ret.lo # Absent
  /\ Len(loc.nums) >= 3
  /\ loc.nums[3] < loc.nums[1]
  /\ loc.nums[3] < loc.nums[2]
  /\ loc.nums[3] >= 15000 * Scale

\* the first character after position i that is not whitespace is "k"
NextNonSpaceIsK(txt, i) ==
  \E j \in i..Len(txt) :
    /\ txt[j] = "k"
    /\ \A l \in i..(j - 1) : IsSpace(txt[l])

\* the decimal value of the number txt[a..b-1]
RECURSIVE ClaimDigits(_, _, _)
ClaimDigits(txt, a, b) ==
  IF a >= b THEN 0
  ELSE DigitVal(txt[a]) * Pow10(b - a - 1) + ClaimDigits(txt, a + 1, b)

ClaimNumber(txt, a, b) ==
  LET dots == { i \in a..(b - 1) : txt[i] = "." }
      d == IF dots = {} THEN b ELSE CHOOSE i \in dots : TRUE
      v == ClaimDigits(txt, a, d) * Scale
             + (IF d < b THEN ClaimDigits(txt, d + 1, b) * Pow10(MaxFrac - (b - d - 1))
                ELSE 0)
  IN IF v > 1000000 * Scale THEN 1000000 * Scale ELSE v

\* the matches are the numbers of the text, left to right: each starts at
\* a digit that no earlier match covers, every digit lies in a match, and
\* match i yields candidate i
TokensInOrder ==
  LET ms == loc.matches IN
    /\ Len(loc.nums) = Len(ms)
    /\ \A i \in 1..Len(ms) :
         /\ IsDigit(loc.txt[ms[i].start])
         /\ ms[i].start < ms[i].numend
         /\ ms[i].numend <= ms[i].end
         /\ i > 1 => ms[i - 1].end <= ms[i].start
    /\ \A p \in 1..Len(loc.txt) :
         IsDigit(loc.txt[p]) =>
           \E i \in 1..Len(ms) : ms[i].start <= p /\ p < ms[i].numend

\* C4 as stated: a number is scaled by 1000 exactly when the character
\* immediately following it is "k"; otherwise it contributes its plain
\* value; candidates are in left-to-right order.
C4_Original ==
  Done =>
    /\ TokensInOrder
    /\ \A i \in 1..Len(loc.matches) :
         LET m == loc.matches[i]
             plain == ClaimNumber(loc.txt, m.start, m.numend)
             immediateK == m.numend <= Len(loc.txt) /\ loc.txt[m.numend] = "k"
         IN loc.nums[i] = IF immediateK THEN ClaimTimes(plain, 1000) ELSE plain

\* C4 amended: a number is scaled by 1000 exactly when the first character
\* after it that is not whitespace is "k" (the "k" may follow the number
\* directly or after whitespace); otherwise it contributes its plain value;
\* candidates are in left-to-right order.
C4_Amended ==
  Done =>
    /\ TokensInOrder
    /\ \A i \in 1..Len(loc.matches) :
         LET m == loc.matches[i]
             plain == ClaimNumber(loc.txt, m.start, m.numend)
         IN loc.nums[i] = IF NextNonSpaceIsK(loc.txt, m.numend)
                          THEN ClaimTimes(plain, 1000) ELSE plain

\* C4 witness: a number followed by whitespace and another number keeps
\* its plain value, and a number separated from its "k" by whitespace is
\* scaled
C4_Witness ==
  /\ Done
  /\ Len(loc.matches) = 2
  /\ ~loc.matches[1].g2
  /\ IsSpace(loc.txt[loc.matches[1].numend])
  /\ loc.matches[2].g2
  /\ IsSpace(loc.txt[loc.matches[2].numend])
  /\ loc.nums = <<700 * Scale, 15000 * Scale>>

\* C5: the unit is one of hour, week, month, year, unknown; it is unknown
\* exactly when the input is null or empty after whitespace normalization;
\* otherwise hour if the lowercased comma-free text holds an hour token,
\* else month on a month token, else week on a week token, else year,
\* whether or not a number was found or passed the gate.
C5_UnitDetection ==
  Done =>
    /\ ret.unit \in {"hour", "week", "month", "year", "unknown"}
    /\ ret.unit = ExpectedUnit(arg)
    /\ (ret.unit = "unknown") <=> EmptyInput(arg)

\* C5 witness: a text with a week token before a month token and no
\* number: the unit is month
C5_Witness ==
  /\ Done
  /\ loc.nums = <<>>
  /\ HasToken(SalaryText(arg), WeekTokens)
  /\ HasToken(SalaryText(arg), MonthTokens)
  /\ ret.unit = "month"

(* -------------------------- skill extractor --------------------------- *)

\* the default vocabulary
SKILLS ==
  << <<"p", "y", "t", "h", "o", "n">>,
     <<"s", "q", "l">>,
     <<"j", "a", "v", "a">>,
     <<"j", "a", "v", "a", "s", "c", "r", "i", "p", "t">>,
     <<"t", "y", "p", "e", "s", "c", "r", "i", "p", "t">>,
     <<"c", "+", "+">>,
     <<"r">>,
     <<"m", "a", "c", "h", "i", "n", "e", " ", "l", "e", "a", "r", "n", "i", "n", "g">>,
     <<"d", "e", "e", "p", " ", "l", "e", "a", "r", "n", "i", "n", "g">>,
     <<"n", "l", "p">>,
     <<"c", "o", "m", "p", "u", "t", "e", "r", " ", "v", "i", "s", "i", "o", "n">>,
     <<"p", "y", "t", "o", "r", "c", "h">>,
     <<"t", "e", "n", "s", "o", "r", "f", "l", "o", "w">>,
     <<"k", "e", "r", "a", "s">>,
     <<"s", "c", "i", "k", "i", "t", "-", "l", "e", "a", "r", "n">>,
     <<"p", "a", "n", "d", "a", "s">>,
     <<"n", "u", "m", "p", "y">>,
     <<"a", "w", "s">>,
     <<"g", "c", "p">>,
     <<"a", "z", "u", "r", "e">>,
     <<"d", "o", "c", "k", "e", "r">>,
     <<"k", "u", "b", "e", "r", "n", "e", "t", "e", "s">>,
     <<"r", "e", "a", "c", "t">>,
     <<"n", "o", "d", "e">>,
     <<"f", "l", "a", "s", "k">>,
     <<"d", "j", "a", "n", "g", "o">>,
     <<"f", "a", "s", "t", "a", "p", "i">>,
     <<"p", "o", "s", "t", "g", "r", "e", "s", "q", "l">>,
     <<"m", "y", "s", "q", "l">>,
     <<"m", "o", "n", "g", "o", "d", "b">>,
     <<"g", "i", "t">> >>

\* whether s[j] exists and is a word character
WordAt(s, j) == j >= 1 /\ j <= Len(s) /\ IsWord(s[j])

\* regex \b after the first p characters of s
Boundary(s, p) == WordAt(s, p) # WordAt(s, p + 1)

\* sub occurs in s after the first i characters
OccursAt(s, sub, i) == \A j \in 1..Len(sub) : s[i + j] = sub[j]

\* re.search(rf"\b{re.escape(sk)}\b", t)
word_search(sk, t) ==
  \E i \in 0..(Len(t) - Len(sk)) :
    /\ OccursAt(t, sk, i)
    /\ Boundary(t, i)
    /\ Boundary(t, i + Len(sk))

\* skill_matches with every entry matched as a substring
skill_matches_substring(sk, t) == Contains(t, sk)

\* the matching rule of one vocabulary entry
skill_matches(sk, t) ==
  IF Len(sk) <= 3 \/ sk \in {<<"r">>}
  THEN word_search(sk, t)
  ELSE Contains(t, sk)

\* the first loop: the matching entries, in the vocabulary's order
RECURSIVE found_skills(_, _)
found_skills(skill_list, t) ==
  IF skill_list = <<>> THEN <<>>
  ELSE (IF skill_matches(Head(skill_list), t) THEN <<Head(skill_list)>> ELSE <<>>)
       \o found_skills(Tail(skill_list), t)

\* the second loop: each element once, at its first place
RECURSIVE dedup_seen(_, _)
dedup_seen(found, seen) ==
  IF found = <<>> THEN <<>>
  ELSE IF Head(found) \in seen
       THEN dedup_seen(Tail(found), seen)
       ELSE <<Head(found)>> \o dedup_seen(Tail(found), seen \cup {Head(found)})

\* extract_skills(text, skill_list)
extract_skills(text, skill_list) ==
  LET t == lower(OrEmpty(text).s) IN dedup_seen(found_skills(skill_list, t), {})

(* ---------------------------- role classifier ------------------------- *)

ROLE_KEYWORDS ==
  << [role |-> "Data Scientist",
      keys |-> { <<"d", "a", "t", "a", " ", "s", "c", "i", "e", "n", "t", "i", "s", "t">>,
                 <<"d", "a", "t", "a", " ", "s", "c", "i", "e", "n", "c", "e">> }],
     [role |-> "ML Engineer",
      keys |-> { <<"m", "a", "c", "h", "i", "n", "e", " ", "l", "e", "a", "r", "n", "i", "n", "g", " ", "e", "n", "g", "i", "n", "e", "e", "r">>,
                 <<"m", "l", " ", "e", "n", "g", "i", "n", "e", "e", "r">>,
                 <<"a", "p", "p", "l", "i", "e", "d", " ", "s", "c", "i", "e", "n", "t", "i", "s", "t">> }],
     [role |-> "Data Analyst",
      keys |-> { <<"d", "a", "t", "a", " ", "a", "n", "a", "l", "y", "s", "t">>,
                 <<"a", "n", "a", "l", "y", "t", "i", "c", "s">> }],
     [role |-> "Software Engineer",
      keys |-> { <<"s", "o", "f", "t", "w", "a", "r", "e", " ", "e", "n", "g", "i", "n", "e", "e", "r">>,
                 <<"b", "a", "c", "k", "e", "n", "d", " ", "e", "n", "g", "i", "n", "e", "e", "r">>,
                 <<"f", "r", "o", "n", "t", "e", "n", "d", " ", "e", "n", "g", "i", "n", "e", "e", "r">>,
                 <<"f", "u", "l", "l", " ", "s", "t", "a", "c", "k">>,
                 <<"f", "u", "l", "l", "-", "s", "t", "a", "c", "k">> }],
     [role |-> "Data Engineer",
      keys |-> { <<"d", "a", "t", "a", " ", "e", "n", "g", "i", "n", "e", "e", "r">>,
                 <<"a", "n", "a", "l", "y", "t", "i", "c", "s", " ", "e", "n", "g", "i", "n", "e", "e", "r">> }],
     [role |-> "DevOps",
      keys |-> { <<"d", "e", "v", "o", "p", "s">>,
                 <<"s", "i", "t", "e", " ", "r", "e", "l", "i", "a", "b", "i", "l", "i", "t", "y">>,
                 <<"s", "r", "e">>,
                 <<"p", "l", "a", "t", "f", "o", "r", "m", " ", "e", "n", "g", "i", "n", "e", "e", "r">> }] >>

\* the first role of roles with a keyword in t, else "Other"
RECURSIVE first_role(_, _)
first_role(roles, t) ==
  IF roles = <<>> THEN "Other"
  ELSE IF \E k \in Head(roles).keys : Contains(t, k) THEN Head(roles).role
  ELSE first_role(Tail(roles), t)

\* categorize_role(title)
categorize_role(title) == first_role(ROLE_KEYWORDS, lower(OrEmpty(title).s))

(* --------------------------- region classifier ------------------------ *)

REGION_KEYWORDS ==
  << [region |-> "West Coast",
      keys |-> { <<"c", "a">>,
                <<"c", "a", "l", "i", "f", "o", "r", "n", "i", "a">>,
                <<"w", "a">>,
                <<"w", "a", "s", "h", "i", "n", "g", "t", "o", "n">>,
                <<"o", "r">>,
                <<"o", "r", "e", "g", "o", "n">> }],
     [region |-> "East Coast",
      keys |-> { <<"n", "y">>,
                <<"n", "e", "w", " ", "y", "o", "r", "k">>,
                <<"n", "j">>,
                <<"n", "e", "w", " ", "j", "e", "r", "s", "e", "y">>,
                <<"m", "a">>,
                <<"m", "a", "s", "s", "a", "c", "h", "u", "s", "e", "t", "t", "s">>,
                <<"d", "c">>,
                <<"v", "i", "r", "g", "i", "n", "i", "a">>,
                <<"m", "d">>,
                <<"m", "a", "r", "y", "l", "a", "n", "d">>,
                <<"p", "a">>,
                <<"p", "e", "n", "n", "s", "y", "l", "v", "a", "n", "i", "a">> }],
     [region |-> "Central",
      keys |-> { <<"t", "x">>,
                <<"t", "e", "x", "a", "s">>,
                <<"i", "l">>,
                <<"i", "l", "l", "i", "n", "o", "i", "s">>,
                <<"c", "o">>,
                <<"c", "o", "l", "o", "r", "a", "d", "o">>,
                <<"g", "a">>,
                <<"g", "e", "o", "r", "g", "i", "a">> }] >>

\* the first region of regions with a keyword in text, else "" (no region)
RECURSIVE first_region(_, _)
first_region(regions, text) ==
  IF regions = <<>> THEN ""
  ELSE IF \E k \in Head(regions).keys : Contains(text, k) THEN Head(regions).region
  ELSE first_region(Tail(regions), text)

\* classify_region with "remote" looked for before the regions
classify_region_remote_first(location) ==
  LET text == lower(OrEmpty(location).s) IN
    IF Contains(text, <<"r", "e", "m", "o", "t", "e">>) THEN "Remote/Unspecified"
    ELSE IF first_region(REGION_KEYWORDS, text) # ""
    THEN first_region(REGION_KEYWORDS, text)
    ELSE "Other/Unspecified"

\* classify_region(location)
classify_region(location) ==
  LET text == lower(OrEmpty(location).s)
      region == first_region(REGION_KEYWORDS, text)
  IN IF region # "" THEN region
     ELSE IF Contains(text, <<"r", "e", "m", "o", "t", "e">>) THEN "Remote/Unspecified"
     ELSE "Other/Unspecified"

(* ---- the skill extractor applied to bounded inputs ---- *)

TextParts == { <<"R">>,
               <<"f", "o", "r">>,
               <<" ">>,
               <<"c", "+", "+">>,
               <<"j", "a", "v", "a">> }

SkillPool == { <<"r">>,
               <<"c", "+", "+">>,
               <<"j", "a", "v", "a">> }

InitSkills ==
  /\ pc = "call"
  /\ \E vocab \in PartSeqs(SkillPool, MaxVocab) :
       \/ arg = [text |-> PyNone, skill_list |-> vocab]
       \/ \E ps \in PartSeqs(TextParts, MaxTextParts) :
            arg = [text |-> Str(Concat(ps)), skill_list |-> vocab]
  /\ ret = NoRet
  /\ loc = NoRet

ExtractSkills ==
  /\ pc = "call"
  /\ ret' = extract_skills(arg.text, arg.skill_list)
  /\ loc' = [t |-> lower(OrEmpty(arg.text).s)]
  /\ pc' = "done"
  /\ arg' = arg

NextSkills == ExtractSkills

SpecSkills == InitSkills /\ [][NextSkills]_vars

(* ---- the region classifier applied to bounded inputs ---- *)

LocationParts == { <<"R", "e", "m", "o", "t", "e">>,
                   <<" ", "(", "U", "S", ")">>,
                   <<"B", "e", "r", "l", "i", "n">>,
                   <<",", " ", "C", "A">>,
                   <<"T", "e", "x", "a", "s">>,
                   <<"N", "Y">>,
                   <<" ", "w", "o", "r", "k">> }

InitRegion ==
  /\ pc = "call"
  /\ \/ arg = PyNone
     \/ \E ps \in PartSeqs(LocationParts, MaxLocParts) : arg = Str(Concat(ps))
  /\ ret = NoRet
  /\ loc = NoRet

ClassifyRegion ==
  /\ pc = "call"
  /\ ret' = classify_region(arg)
  /\ loc' = [text |-> lower(OrEmpty(arg).s)]
  /\ pc' = "done"
  /\ arg' = arg

NextRegion == ClassifyRegion

SpecRegion == InitRegion /\ [][NextRegion]_vars

(* ---- claims about the skill extractor and the region classifier ---- *)

\* a word boundary: exactly one of the two neighbouring characters is a
\* word character (the ends of the text count as no character)
ClaimWordChar(s, j) == j >= 1 /\ j <= Len(s) /\ IsWord(s[j])
ClaimBoundary(s, p) ==
  \/ ClaimWordChar(s, p) /\ ~ClaimWordChar(s, p + 1)
  \/ ~ClaimWordChar(s, p) /\ ClaimWordChar(s, p + 1)

\* the entry occurs in s as s[a+1..a+Len(e)]
ClaimOccurs(s, e, a) == a + Len(e) <= Len(s) /\ SubSeq(s, a + 1, a + Len(e)) = e

ClaimMatches(e, s) ==
  IF Len(e) <= 3
  THEN \E a \in 0..Len(s) :
         ClaimOccurs(s, e, a) /\ ClaimBoundary(s, a) /\ ClaimBoundary(s, a + Len(e))
  ELSE \E a \in 0..Len(s) : ClaimOccurs(s, e, a)

\* the first place of e in the vocabulary
FirstIndex(q, e) == CHOOSE i \in 1..Len(q) : q[i] = e /\ \A j \in 1..(i - 1) : q[j] # e

SkillText == IF arg.text.kind = "str" THEN lower(arg.text.s) ELSE <<>>

\* C6: extract_skills returns exactly the vocabulary entries that match
\* the lowercased text, in the vocabulary's order, each once; an entry of
\* length <= 3 matches only between word boundaries, a longer one anywhere
\* as a substring.
C6_ExtractSkills ==
  Done =>
    /\ \A i \in 1..Len(ret) :
         \E j \in 1..Len(arg.skill_list) : arg.skill_list[j] = ret[i]
    /\ \A i \in 1..Len(ret) : ClaimMatches(ret[i], SkillText)
    /\ \A j \in 1..Len(arg.skill_list) :
         ClaimMatches(arg.skill_list[j], SkillText) =>
           \E i \in 1..Len(ret) : ret[i] = arg.skill_list[j]
    /\ \A i, j \in 1..Len(ret) : i < j => ret[i] # ret[j]
    /\ \A i, j \in 1..Len(ret) :
         i < j => FirstIndex(arg.skill_list, ret[i]) < FirstIndex(arg.skill_list, ret[j])

\* C6 witness: the text is "java R", the vocabulary lists "r" before
\* "java": both are returned, in the vocabulary's order
C6_Witness ==
  /\ Done
  /\ arg.text = Str(<<"j", "a", "v", "a", " ", "R">>)
  /\ arg.skill_list = << <<"r">>, <<"j", "a", "v", "a">> >>
  /\ ret = << <<"r">>, <<"j", "a", "v", "a">> >>

ClaimRegionHit(i) == \E k \in REGION_KEYWORDS[i].keys : Contains(loc.text, k)

ClaimRemote == Contains(loc.text, <<"r", "e", "m", "o", "t", "e">>)

\* C7: classify_region returns the first of West Coast, East Coast,
\* Central with a keyword contained in the lowercased location;
\* Remote/Unspecified exactly when no keyword matches and the location
\* contains "remote"; Other/Unspecified exactly when no keyword matches and
\* it does not.
C7_ClassifyRegion ==
  Done =>
    /\ loc.text = (IF arg.kind = "str" THEN lower(arg.s) ELSE <<>>)
    /\ ClaimRegionHit(1) => ret = "West Coast"
    /\ (~ClaimRegionHit(1) /\ ClaimRegionHit(2)) => ret = "East Coast"
    /\ (~ClaimRegionHit(1) /\ ~ClaimRegionHit(2) /\ ClaimRegionHit(3)) => ret = "Central"
    /\ (ret = "Remote/Unspecified") <=>
         (~ClaimRegionHit(1) /\ ~ClaimRegionHit(2) /\ ~ClaimRegionHit(3) /\ ClaimRemote)
    /\ (ret = "Other/Unspecified") <=>
         (~ClaimRegionHit(1) /\ ~ClaimRegionHit(2) /\ ~ClaimRegionHit(3) /\ ~ClaimRemote)

\* C7 witness: "Remote (US)" has no region keyword and is Remote/Unspecified
C7_Witness ==
  /\ Done
  /\ arg = Str(<<"R", "e", "m", "o", "t", "e", " ", "(", "U", "S", ")">>)
  /\ ret = "Remote/Unspecified"

(* ------------------------------ clean_posts --------------------------- *)

\* the six columns clean_posts normalizes (lines 475-480)
CleanedColumns == {"title", "company", "location", "description", "source", "url"}

\* out[c] = out[c].map(clean_text) for the six columns of one row; a
\* TypeError of clean_text on any of them ends the call
clean_row(row) ==
  [raised |-> \E c \in CleanedColumns : clean_text(row[c]).raised,
   row |-> [c \in DOMAIN row |->
              IF c \in CleanedColumns THEN Str(clean_text(row[c]).s) ELSE row[c]]]

\* drop_duplicates that keeps the last row of each url
RECURSIVE drop_duplicates_keep_last(_, _)
drop_duplicates_keep_last(rows, seen) ==
  IF rows = <<>> THEN <<>>
  ELSE IF \E j \in 2..Len(rows) : rows[j].url = Head(rows).url
       THEN drop_duplicates_keep_last(Tail(rows), seen)
       ELSE <<Head(rows)>> \o drop_duplicates_keep_last(Tail(rows), seen)

\* out.drop_duplicates(subset=["url"]).reset_index(drop=True): the rows
\* whose url is not in seen, each url once, the first row of each kept
RECURSIVE drop_duplicates(_, _)
drop_duplicates(rows, seen) ==
  IF rows = <<>> THEN <<>>
  ELSE IF Head(rows).url \in seen
       THEN drop_duplicates(Tail(rows), seen)
       ELSE <<Head(rows)>> \o drop_duplicates(Tail(rows), seen \cup {Head(rows).url})

\* the derived columns of one surviving row (lines 484-494); the salary
\* parser's TypeError ends the call
enrich_row(row) ==
  LET skills == extract_skills(Str(row.title.s \o <<" ">> \o row.description.s), SKILLS)
      parsed == parse_salary_to_yearly_usd(row.salary_raw)
  IN [raised |-> parsed.raised,
      row |-> row @@
        [role_category |-> categorize_role(row.title),
         region |-> classify_region(row.location),
         skills |-> skills,
         num_skills |-> Len(skills),
         salary_min_usd_year |-> parsed.lo,
         salary_max_usd_year |-> parsed.hi,
         salary_unit_guess |-> parsed.unit,
         \* the mean of min and max, in half money units
         salary_mid_x2 |-> IF parsed.lo = Absent THEN Absent ELSE parsed.lo + parsed.hi]]

\* clean_posts(df)
clean_posts(df) ==
  LET cleaned == [i \in 1..Len(df) |-> clean_row(df[i])]
      out == drop_duplicates([i \in 1..Len(df) |-> cleaned[i].row], {})
      enriched == [i \in 1..Len(out) |-> enrich_row(out[i])]
  IN IF \E i \in 1..Len(df) : cleaned[i].raised
     THEN [raised |-> TRUE, rows |-> <<>>]
     ELSE IF \E i \in 1..Len(out) : enriched[i].raised
     THEN [raised |-> TRUE, rows |-> <<>>]
     ELSE [raised |-> FALSE, rows |-> [i \in 1..Len(out) |-> enriched[i].row]]

(* ---- clean_posts applied to bounded inputs ---- *)

UrlValues == { Str(<<"u">>), Str(<<" ", "u", "	", " ">>), Str(<<"v">>) }

SalaryValues == { Str(<<"9", "0", "k">>), PyNone, PyNaN, PyInt(50000) }

RawRow(url, salary) ==
  [source |-> Str(<<"R", "e", "m", "o", "t", "e", "O", "K">>),
   title |-> Str(<<" ", "S", "R", "E", " ">>),
   company |-> Str(<<"A", "c", "m", "e">>),
   location |-> Str(<<"R", "e", "m", "o", "t", "e", ",", " ", " ", "C", "A">>),
   date_posted_raw |-> Str(<<>>),
   salary_raw |-> salary,
   url |-> url,
   description |-> Str(<<"R">>),
   scraped_at_utc |-> Str(<<>>)]

RawRows == { RawRow(u, s) : u \in UrlValues, s \in SalaryValues }

InitClean ==
  /\ pc = "call"
  /\ arg \in PartSeqs(RawRows, MaxRows)
  /\ ret = NoRet
  /\ loc = NoRet

CleanPosts ==
  /\ pc = "call"
  /\ ret' = clean_posts(arg)
  /\ pc' = "done"
  /\ UNCHANGED <<arg, loc>>

NextClean == CleanPosts

SpecClean == InitClean /\ [][NextClean]_vars

(* ---- claims about clean_posts ---- *)

\* the whitespace-normalized url of a raw row
NormUrl(row) == strip(collapse_ws(row.url.s))

\* the places of the input whose normalized url appears at no earlier place
FirstPlaces(df) ==
  { i \in 1..Len(df) : \A j \in 1..(i - 1) : NormUrl(df[j]) # NormUrl(df[i]) }

\* the k-th smallest element of a set of numbers
KthOf(S, k) == CHOOSE i \in S : Cardinality({ j \in S : j < i }) = k - 1

IsText(v) == v.kind \in {"str", "none"}

AllText(df) == \A i \in 1..Len(df) : \A c \in DOMAIN df[i] : IsText(df[i][c])

\* C1: clean_posts returns exactly the records whose whitespace-normalized
\* url has not appeared earlier in the input: one record for each distinct
\* normalized url, the first one in input order, the survivors in their
\* input order; on an input whose fields are all text it always returns.
C1_DedupByUrl ==
  Done =>
    /\ AllText(arg) => ~ret.raised
    /\ ~ret.raised =>
         /\ Len(ret.rows) = Cardinality(FirstPlaces(arg))
         /\ \A k \in 1..Len(ret.rows) :
              LET i == KthOf(FirstPlaces(arg), k) IN
                /\ ret.rows[k].url.s = NormUrl(arg[i])
                /\ ret.rows[k].salary_raw = arg[i].salary_raw
         /\ \A k, l \in 1..Len(ret.rows) : k # l => ret.rows[k].url # ret.rows[l].url

\* C1 witness: three rows, the first and the third with urls that differ
\* only in whitespace and with different salaries: the first and the second
\* row survive
C1_Witness ==
  /\ Done
  /\ ~ret.raised
  /\ Len(arg) = 3
  /\ arg[1].url # arg[3].url
  /\ NormUrl(arg[1]) = NormUrl(arg[3])
  /\ NormUrl(arg[1]) # NormUrl(arg[2])
  /\ arg[1].salary_raw # arg[3].salary_raw
  /\ Len(ret.rows) = 2
  /\ ret.rows[1].salary_raw = arg[1].salary_raw

\* C8 as stated: a record with a salary field that is not text never aborts
\* clean_posts; that record gets absent salary numbers and every record is
\* still enriched and returned.
C8_MalformedFieldNeverAborts ==
  Done =>
    /\ ~ret.raised
    /\ Len(ret.rows) = Cardinality(FirstPlaces(arg))
    /\ \A k \in 1..Len(ret.rows) :
         ~IsText(ret.rows[k].salary_raw) =>
           /\ ret.rows[k].salary_min_usd_year = Absent
           /\ ret.rows[k].salary_max_usd_year = Absent

(* ------------------------------ polite_get ---------------------------- *)

\* what one attempt meets: a response (status, text) or an exception of
\* time.sleep or SESSION.get
Response(status, text) == [kind |-> "resp", status |-> status, text |-> text]
Raises == [kind |-> "exc", status |-> 0, text |-> <<>>]

\* resp.status_code == 200 with any text, empty or not
attempt_succeeds_any_text(o) == o.kind = "resp" /\ o.status = 200

\* resp.status_code == 200 and resp.text
attempt_succeeds(o) == o.kind = "resp" /\ o.status = 200 /\ o.text # <<>>

\* the locals of polite_get on entry: the next attempt is attempt 1;
\* made is the history of what the attempts met
get_start(retries) ==
  [retries |-> retries, attempt |-> 1, last_err |-> "None", made |-> <<>>,
   status |-> "loop", text |-> <<>>]

\* the for loop has an attempt left
get_in_loop(g) == g.status = "loop" /\ g.attempt <= g.retries

\* one pass of the loop body, the attempt meeting o
get_attempt(g, o) ==
  IF attempt_succeeds(o)
  THEN [g EXCEPT !.made = Append(@, o), !.status = "returned", !.text = o.text]
  ELSE [g EXCEPT !.made = Append(@, o),
                 !.attempt = @ + 1,
                 !.last_err = IF o.kind = "exc" THEN "Exception" ELSE "HTTP"]

\* the loop is over without a return: raise RuntimeError
get_exhausted(g) == g.status = "loop" /\ g.attempt > g.retries

get_raise(g) == [g EXCEPT !.status = "raised"]

(* ---- polite_get applied to bounded inputs ---- *)

GetOutcomes ==
  { Response(200, <<"a">>), Response(200, <<"b">>), Response(200, <<>>),
    Response(500, <<"e">>), Raises }

InitGet ==
  /\ pc = "polite_get"
  /\ arg \in [retries : 0..MaxRetries]
  /\ loc = get_start(arg.retries)
  /\ ret = NoRet

GetAttempt ==
  /\ pc = "polite_get"
  /\ get_in_loop(loc)
  /\ \E o \in GetOutcomes :
       /\ loc' = get_attempt(loc, o)
       /\ IF loc'.status = "returned"
          THEN pc' = "returned" /\ ret' = [raised |-> FALSE, text |-> loc'.text]
          ELSE UNCHANGED <<pc, ret>>
  /\ arg' = arg

GetExhausted ==
  /\ pc = "polite_get"
  /\ get_exhausted(loc)
  /\ loc' = get_raise(loc)
  /\ pc' = "raised"
  /\ ret' = [raised |-> TRUE, text |-> <<>>]
  /\ arg' = arg

NextGet == GetAttempt \/ GetExhausted

SpecGet == InitGet /\ [][NextGet]_vars

\* the loop of polite_get is sequential code: an enabled step is taken
FairSpecGet == SpecGet /\ WF_vars(NextGet)

(* ---- claims about polite_get ---- *)

ClaimSuccess(o) == o.kind = "resp" /\ o.status = 200 /\ Len(o.text) > 0

GetFinished == pc \in {"returned", "raised"}

C10_Safety ==
  /\ Len(loc.made) <= arg.retries
  /\ \A i \in 1..(Len(loc.made) - 1) : ~ClaimSuccess(loc.made[i])
  /\ pc = "polite_get" => \A i \in 1..Len(loc.made) : ~ClaimSuccess(loc.made[i])
  /\ pc = "returned" =>
       /\ loc.made # <<>>
       /\ ClaimSuccess(loc.made[Len(loc.made)])
       /\ ~ret.raised
       /\ ret.text = loc.made[Len(loc.made)].text
  /\ pc = "raised" =>
       /\ ret.raised
       /\ Len(loc.made) = arg.retries
       /\ \A i \in 1..Len(loc.made) : ~ClaimSuccess(loc.made[i])
  /\ (GetFinished /\ Len(loc.made) = arg.retries
        /\ \A i \in 1..Len(loc.made) : ~ClaimSuccess(loc.made[i])) => pc = "raised"

\* C10: polite_get makes at most `retries` attempts, one after another;
\* it returns the text of the first attempt that meets HTTP 200 with a
\* non-empty body and makes no attempt after it; it raises exactly when all
\* `retries` attempts have failed (with retries = 0, without any attempt);
\* it never returns text without a successful attempt; it always ends.
C10_PoliteGet ==
  /\ []C10_Safety
  /\ [][GetFinished => UNCHANGED vars]_vars
  /\ <>GetFinished

\* C10 witness: two failed attempts (an exception, then HTTP 200 with an
\* empty body), then a third attempt that succeeds and is returned
C10_Witness ==
  /\ pc = "returned"
  /\ arg.retries = 3
  /\ Len(loc.made) = 3
  /\ loc.made[1].kind = "exc"
  /\ loc.made[2] = Response(200, <<>>)
  /\ ret.text = <<"a">>

(* ------------------------- scrapers, collect_posts -------------------- *)

\* the default retry count of polite_get
DefaultRetries == 3

\* str(v or "") of a text or None
StrOr(v) == IF Truthy(v) THEN v ELSE Str(<<>>)

\* clean_text(str(a or b or ""))
CleanOr(a, b) == clean_text(StrOr(IF Truthy(a) THEN a ELSE b)).s

\* job_url of a RemoteOK item: a url that starts with "/" gets the host
remoteok_url(item) ==
  LET u == StrOr(item.url).s IN
    clean_text(Str(IF u # <<>> /\ Head(u) = "/"
                   THEN <<"h", "t", "t", "p", "s", ":", "/", "/", "r", "e", "m", "o", "t", "e", "o", "k", ".", "c", "o", "m">> \o u
                   ELSE u)).s

\* the JobPost of one RemoteOK item (lines 190-220)
remoteok_post(item) ==
  [source |-> <<"R", "e", "m", "o", "t", "e", "O", "K">>,
   title |-> CleanOr(item.position, item.title),
   company |-> CleanOr(item.company, PyNone),
   location |-> CleanOr(item.location, PyNone),
   date_posted_raw |-> CleanOr(item.date, PyNone),
   salary_raw |-> CleanOr(item.salary, PyNone),
   url |-> remoteok_url(item),
   description |-> CleanOr(item.description, PyNone)]

\* the JobPost of one Remotive job whose fields are text (lines 261-287)
remotive_post(j) ==
  [source |-> <<"R", "e", "m", "o", "t", "i", "v", "e">>,
   title |-> clean_text(j.title).s,
   company |-> clean_text(j.company_name).s,
   location |-> IF clean_text(j.candidate_required_location).s # <<>>
                THEN clean_text(j.candidate_required_location).s
                ELSE <<"R", "e", "m", "o", "t", "e">>,
   date_posted_raw |-> clean_text(j.publication_date).s,
   salary_raw |-> clean_text(j.salary).s,
   url |-> clean_text(j.url).s,
   description |-> clean_text(j.description).s]

\* if not title or not company or not job_url: continue
incomplete(post) == post.title = <<>> \/ post.company = <<>> \/ post.url = <<>>

\* the loop of scrape_remoteok over data[1:] (lines 186-222)
RECURSIVE remoteok_loop(_, _, _)
remoteok_loop(items, posts, limit) ==
  IF items = <<>> THEN posts
  ELSE IF ~Head(items).dict \/ incomplete(remoteok_post(Head(items)))
  THEN remoteok_loop(Tail(items), posts, limit)
  ELSE LET more == Append(posts, remoteok_post(Head(items))) IN
         IF Len(more) >= limit THEN more
         ELSE remoteok_loop(Tail(items), more, limit)

\* the loop of scrape_remotive over jobs (lines 260-289)
RECURSIVE remotive_loop(_, _, _)
remotive_loop(jobs, posts, limit) ==
  IF jobs = <<>> THEN posts
  ELSE IF incomplete(remotive_post(Head(jobs)))
  THEN remotive_loop(Tail(jobs), posts, limit)
  ELSE LET more == Append(posts, remotive_post(Head(jobs))) IN
         IF Len(more) >= limit THEN more
         ELSE remotive_loop(Tail(jobs), more, limit)

\* scrape_remoteok after polite_get returned the text of the list data
scrape_remoteok_parse(data, limit) ==
  remoteok_loop(IF data = <<>> THEN <<>> ELSE Tail(data), <<>>, limit)

\* scrape_remotive on what SESSION.get met (lines 252-291): an exception
\* of SESSION.get propagates, a status other than 200 returns []
scrape_remotive(r, limit) ==
  IF r.kind = "exc" THEN [raised |-> TRUE, posts |-> <<>>]
  ELSE IF r.status # 200 THEN [raised |-> FALSE, posts |-> <<>>]
  ELSE [raised |-> FALSE, posts |-> remotive_loop(r.text, <<>>, limit)]

(* ---- collect_posts on bounded inputs ---- *)

Item(position, company, url) ==
  [dict |-> TRUE, position |-> position, title |-> PyNone, company |-> company,
   location |-> Str(<<"R", "e", "m", "o", "t", "e">>), date |-> PyNone, salary |-> Str(<<>>),
   url |-> url, description |-> PyNone]

\* the first element of the RemoteOK list: the legal notice
LegalNotice == Item(PyNone, PyNone, PyNone)

ItemA == Item(Str(<<"S", "R", "E">>), Str(<<"A", "c", "m", "e">>), Str(<<"/", "a">>))
ItemB == Item(Str(<<"D", "a", "t", "a", " ", " ", "A", "n", "a", "l", "y", "s", "t">>), Str(<<"B", "o", "l", "t">>), Str(<<"h", "t", "t", "p", "s", ":", "/", "/", "b">>))
ItemNoCompany == Item(Str(<<"S", "R", "E">>), PyNone, Str(<<"/", "c">>))
NotADict == [LegalNotice EXCEPT !.dict = FALSE]

Job(title, company_name, url) ==
  [title |-> title, company_name |-> company_name,
   candidate_required_location |-> Str(<<>>), publication_date |-> Str(<<>>),
   salary |-> Str(<<>>), url |-> url, description |-> Str(<<>>)]

JobA == Job(Str(<<"S", "R", "E">>), Str(<<"A", "c", "m", "e">>), Str(<<"h", "t", "t", "p", "s", ":", "/", "/", "a">>))
JobB == Job(Str(<<" ", "D", "a", "t", "a", " ", " ", "A", "n", "a", "l", "y", "s", "t">>), Str(<<"B", "o", "l", "t">>), Str(<<"h", "t", "t", "p", "s", ":", "/", "/", "b">>))
JobNoUrl == Job(Str(<<"S", "R", "E">>), Str(<<"A", "c", "m", "e">>), Str(<<" ">>))

RemoteOkOutcomes ==
  { Response(200, <<LegalNotice, ItemA>>),
    Response(200, <<LegalNotice, NotADict, ItemNoCompany, ItemA, ItemB>>),
    Response(200, <<>>),
    Response(503, <<LegalNotice>>),
    Raises }

RemotiveOutcomes ==
  { Response(200, <<JobB>>),
    Response(200, <<JobNoUrl, JobB, JobA>>),
    Response(200, <<>>),
    Response(500, <<JobB>>),
    Raises }

InitCollect ==
  /\ pc = "scrape_remoteok"
  /\ arg \in [remoteok_limit : 1..MaxLimit, remotive_limit : 1..MaxLimit]
  /\ loc = [get |-> get_start(DefaultRetries), posts |-> <<>>, failed |-> {}]
  /\ ret = NoRet

\* scrape_remoteok: one attempt of its polite_get; on success the parse
RemoteOkAttempt ==
  /\ pc = "scrape_remoteok"
  /\ get_in_loop(loc.get)
  /\ \E o \in RemoteOkOutcomes :
       LET g == get_attempt(loc.get, o) IN
         IF g.status = "returned"
         THEN /\ loc' = [loc EXCEPT !.get = g,
                           !.posts = @ \o scrape_remoteok_parse(g.text, arg.remoteok_limit)]
              /\ pc' = "scrape_remotive"
         ELSE /\ loc' = [loc EXCEPT !.get = g]
              /\ pc' = pc
  /\ UNCHANGED <<arg, ret>>

\* scrape_remoteok: polite_get raises RuntimeError, nothing catches it
RemoteOkExhausted ==
  /\ pc = "scrape_remoteok"
  /\ get_exhausted(loc.get)
  /\ loc' = [loc EXCEPT !.get = get_raise(@), !.failed = @ \cup {"RemoteOK"}]
  /\ pc' = "raised"
  /\ ret' = [raised |-> TRUE, posts |-> <<>>]
  /\ arg' = arg

\* scrape_remotive and the return of collect_posts
RemotiveGet ==
  /\ pc = "scrape_remotive"
  /\ \E r \in RemotiveOutcomes :
       LET s == scrape_remotive(r, arg.remotive_limit)
           fails == r.kind = "exc" \/ r.status # 200
       IN /\ loc' = [loc EXCEPT !.posts = @ \o s.posts,
                       !.failed = IF fails THEN @ \cup {"Remotive"} ELSE @]
          /\ pc' = IF s.raised THEN "raised" ELSE "done"
          /\ ret' = [raised |-> s.raised,
                     posts |-> IF s.raised THEN <<>> ELSE loc.posts \o s.posts]
  /\ arg' = arg

NextCollect == RemoteOkAttempt \/ RemoteOkExhausted \/ RemotiveGet

SpecCollect == InitCollect /\ [][NextCollect]_vars

(* ---- claims about collect_posts ---- *)

\* C9: when the retrieval of a source fails (a network error or a response
\* other than HTTP 200), collect_posts fails with an error; it never
\* returns a dataset when a source's retrieval failed.
C9_RetrievalFailureSurfaced ==
  /\ pc = "done" => loc.failed = {}
  /\ (pc \in {"done", "raised"} /\ loc.failed # {}) => ret.raised

====
